---- MODULE Spec2Model ----
(***************************************************************************)
(* A model of sa_api_v2/models/core.py: the save orchestration of          *)
(* SubmittedThing (persist, reindex, audit Action), index_values,          *)
(* DataSet.reindex, CloneableModelMixin and the cache-clearing entities.    *)
(* The collaborators core.py imports but does not define                    *)
(* (IndexedValue.objects.sync, CacheClearingModel, the cache descriptors)   *)
(* are modelled from the written specification of their contracts.          *)
(***************************************************************************)
EXTENDS Integers, Sequences, FiniteSets, TLC

\* ------------------------------------------------------------------ bounds

\* The number of SubmittedThing rows the store may hold.
MaxThings == 1
\* The number of Action and Attachment rows the store may hold.
MaxActions == 1
\* The number of Things of a Place/Submission tree.
MaxTree == 2
\* The number of copies that clone may save.
MaxCopies == 1
\* The number of Action rows of the action log of SpecLog.
MaxLog == 2
\* The number of DataSet rows the store may hold.
MaxDataSets == 3

\* ------------------------------------------------------------- value sets

\* self.id == None: an identity that is not assigned yet.
NoId == 0
\* Python's None / SQL NULL for the other columns.
None == "None"
\* The value stored for an index spec whose field path the blob lacks.
Null == "null"

DataSetIds == {1, 2}
\* The field paths an index spec may name (DataIndex.attr_name).
AttrNames == {"name", "age"}
\* The source labels a caller may pass to save.
Sources == {"api"}
\* The clock reading of django.utils.timezone.now().
Now == "t1"

\* ------------------------------------------------------------ JSON blobs
\* A data blob is the token sequence of its text; json.loads parses it.

Punct == {"{", "}", ":", ","}

BlobMalformed == <<"{", "name", ":">>
BlobEmpty == <<"{", "}">>
BlobNameA == <<"{", "name", ":", "a", "}">>
BlobNameBAgeA == <<"{", "name", ":", "b", ",", "age", ":", "a", "}">>

ParseError == [ok |-> FALSE, keys |-> {}, val |-> [k \in {} |-> Null]]

ParseOk(keys, val) == [ok |-> TRUE, keys |-> keys, val |-> val]

RECURSIVE parse_pairs(_, _, _, _)
\* The members of a JSON object, from token i on; a repeated key keeps the
\* last value.
parse_pairs(toks, i, keys, val) ==
    IF i + 3 > Len(toks) THEN ParseError
    ELSE IF toks[i] \in Punct \/ toks[i + 1] # ":" \/ toks[i + 2] \in Punct
    THEN ParseError
    ELSE LET keys2 == keys \cup {toks[i]}
             val2 == [k \in keys2 |-> IF k = toks[i] THEN toks[i + 2] ELSE val[k]]
         IN  IF toks[i + 3] = "}"
             THEN (IF i + 3 = Len(toks) THEN ParseOk(keys2, val2) ELSE ParseError)
             ELSE IF toks[i + 3] = ","
             THEN parse_pairs(toks, i + 4, keys2, val2)
             ELSE ParseError

\* json.loads(self.data): the parsed object, or ParseError where ujson
\* raises ValueError.
loads(toks) ==
    IF Len(toks) < 2 \/ toks[1] # "{" THEN ParseError
    ELSE IF toks[2] = "}"
    THEN (IF Len(toks) = 2 THEN ParseOk({}, [k \in {} |-> Null]) ELSE ParseError)
    ELSE parse_pairs(toks, 2, {}, [k \in {} |-> Null])

\* -------------------------------------------------- model classes, fields
\* An instance is [cls |-> its class, f |-> its field values].

ThingClasses == {"Place", "Submission"}

\* The concrete fields of SubmittedThing: id, ModelWithDataBlob.data,
\* the TimeStampedModel pair, submitter, dataset, visible.
SubmittedThingFields ==
    {"id", "data", "created_datetime", "updated_datetime",
     "submitter", "dataset", "visible"}

\* ModelClass._meta.fields: the class's own fields and its parents'.
Fields(cls) ==
    CASE cls = "SubmittedThing" -> SubmittedThingFields
      [] cls = "Place" -> SubmittedThingFields \cup {"submittedthing_ptr", "geometry"}
      [] cls = "Submission" ->
            SubmittedThingFields \cup {"submittedthing_ptr", "place", "set_name"}

\* ModelClass._meta.pk.name
PkName(cls) == IF cls = "SubmittedThing" THEN "id" ELSE "submittedthing_ptr"

\* pk_fld.rel.to when pk_fld.rel.parent_link, for a multi-table child.
ParentLinkTo(cls) == IF cls \in ThingClasses THEN "SubmittedThing" ELSE None

\* The value a field takes when the constructor is given none.
FieldDefault(fld) ==
    CASE fld \in {"id", "submittedthing_ptr", "place", "dataset"} -> NoId
      [] fld = "data" -> BlobEmpty
      [] fld = "created_datetime" -> Now
      [] fld = "visible" -> TRUE
      [] fld = "set_name" -> ""
      [] OTHER -> None

\* self.__class__(**inst_kwargs)
Construct(cls, kwargs) ==
    [cls |-> cls,
     f |-> [fld \in Fields(cls) |->
              IF fld \in DOMAIN kwargs THEN kwargs[fld] ELSE FieldDefault(fld)]]

\* The classes that list CloneableModelMixin among their bases.
Cloneable == {"Submission"}

RECURSIVE get_ignore_fields(_)
get_ignore_fields(ModelClass) ==
    LET pk_name == PkName(ModelClass)
    IN  IF ParentLinkTo(ModelClass) # None
        THEN {pk_name} \cup get_ignore_fields(ParentLinkTo(ModelClass))
        ELSE {pk_name}

\* Lines 46-53 of clone: the keyword arguments the copy is built from.
clone_kwargs(self, inst_kwargs) ==
    LET ignore_field_names == get_ignore_fields(self.cls)
        copied == Fields(self.cls) \ ignore_field_names
    IN  [fld \in DOMAIN inst_kwargs \cup copied |->
            IF fld \in DOMAIN inst_kwargs THEN inst_kwargs[fld] ELSE self.f[fld]]

\* ------------------------------------------------------------ the store
\* A world W holds the tables and the cache:
\*   things       the SubmittedThing rows, row i holding the Thing of id i
\*   indexes      the Index Specs, each [dataset, attr_name]
\*   ivals        the Indexed Value rows, each [thing, index, n, value]: the
\*                n-th row that was created for (thing, index)
\*   actions      the Action rows, in creation order
\*   attachments  the Attachment rows, in creation order
\*   cache        the cache entries, each [key, fresh]; fresh is FALSE once
\*                a write has changed what the entry was computed from
\*   up           whether the cache backend answers; FALSE during an outage

World(t, ix, iv, ac, at, ca, up) ==
    [things |-> t, indexes |-> ix, ivals |-> iv, actions |-> ac,
     attachments |-> at, cache |-> ca, up |-> up]

Key(type, id) == [type |-> type, id |-> id]

ThingKey(W, id) == Key(W.things[id].cls, id)

DataSetKey(ds) == Key("DataSet", ds)

\* The foreign keys of an entity to the entities that own it:
\* Submission.place, SubmittedThing.dataset, Action.thing, Attachment.thing.
Parents(W, key) ==
    CASE key.type = "Submission" ->
            LET row == W.things[key.id]
            IN  {DataSetKey(row.f.dataset)}
                \cup (IF row.f.place # NoId /\ row.f.place <= Len(W.things)
                      THEN {ThingKey(W, row.f.place)} ELSE {})
      [] key.type = "Place" -> {DataSetKey(W.things[key.id].f.dataset)}
      [] key.type = "Action" -> {ThingKey(W, W.actions[key.id].thing)}
      [] key.type = "Attachment" -> {ThingKey(W, W.attachments[key.id].thing)}
      [] OTHER -> {}

RECURSIVE Chain(_, _)
\* An entity's key and, recursively, its ancestors' keys.
Chain(W, key) ==
    {key} \cup UNION {Chain(W, p) : p \in Parents(W, key)}

\* The reverse relations (related_name 'submissions', 'things', 'actions',
\* 'attachments'): the entities whose representation is derived from key's.
RECURSIVE EmbeddedIn(_, _)
EmbeddedIn(W, key) ==
    LET thingKeys == {ThingKey(W, i) : i \in 1..Len(W.things)}
        owners ==
            CASE key.type \in {"Action", "Attachment"} ->
                    {k \in thingKeys :
                        k.id = (IF key.type = "Action"
                                THEN W.actions[key.id].thing
                                ELSE W.attachments[key.id].thing)}
              [] key.type = "Submission" ->
                    {k \in thingKeys : k.type = "Place" /\ k.id = W.things[key.id].f.place}
                    \cup {DataSetKey(W.things[key.id].f.dataset)}
              [] key.type = "Place" -> {DataSetKey(W.things[key.id].f.dataset)}
              [] OTHER -> {}
    IN  {key} \cup UNION {EmbeddedIn(W, o) : o \in owners}

\* A write to the entity of `key`: every cache entry computed from it goes
\* stale.
Touch(W, key) ==
    [W EXCEPT !.cache =
        {IF e.key \in EmbeddedIn(W, key) THEN [e EXCEPT !.fresh = FALSE] ELSE e :
            e \in W.cache}]

\* CacheClearingModel's clear of an instance: its keys and its ancestors'.
\* A backend that does not answer deletes nothing, and the failure is not
\* passed on.
clear(W, key) ==
    IF ~W.up THEN W
    ELSE [W EXCEPT !.cache = {e \in W.cache : e.key \notin Chain(W, key)}]

\* A mutant of CacheClearing: SubmittedThing without the CacheClearingModel
\* base.
CacheClearing_without_things == {"DataSet", "Action", "Attachment"}

\* The classes that list CacheClearingModel among their bases.
CacheClearing == {"Place", "Submission", "DataSet", "Action", "Attachment"}

\* The cache invalidation a save of an instance of `type` ends with.
clear_after_save(W, key) ==
    IF key.type \in CacheClearing THEN clear(W, key) ELSE W

\* ---------------------------------------------------- the Record Store

\* The outcome of a call: the world it leaves, the instance it worked on,
\* where it raised ("none" when it returned), and the rows it wrote.
Outcome(W, inst, raised, writes) ==
    [W |-> W, inst |-> inst, raised |-> raised, writes |-> writes]

\* models.Model.save of a Place or Submission: an instance without an id is
\* inserted under the next id, one with an id replaces its row;
\* updated_datetime is auto_now. The store may reject the write (storeOk).
ModelSave(W, inst, storeOk) ==
    IF ~storeOk THEN Outcome(W, inst, "persist", 0)
    ELSE LET id == IF inst.f.id = NoId THEN Len(W.things) + 1 ELSE inst.f.id
             saved == [inst EXCEPT !.f.id = id, !.f.submittedthing_ptr = id,
                                   !.f.updated_datetime = Now]
             things2 == IF inst.f.id = NoId
                        THEN Append(W.things, saved)
                        ELSE [W.things EXCEPT ![id] = saved]
         IN  Outcome(Touch([W EXCEPT !.things = things2], Key(inst.cls, id)),
                     saved, "none", 1)

\* A mutant of super_save: the failure of a cache backend that does not
\* answer is raised out of the clear, after the row was written.
super_save_cache_fatal(W, inst, storeOk) ==
    LET p == ModelSave(W, inst, storeOk)
    IN  IF p.raised # "none" THEN p
        ELSE IF ~W.up THEN [p EXCEPT !.raised = "cache"]
        ELSE [p EXCEPT !.W = clear_after_save(p.W, Key(inst.cls, p.inst.f.id))]

\* super(SubmittedThing, self).save(): CacheClearingModel.save persists
\* through models.Model.save and then clears the instance's cache.
super_save(W, inst, storeOk) ==
    LET p == ModelSave(W, inst, storeOk)
    IN  IF p.raised # "none" THEN p
        ELSE [p EXCEPT !.W = clear_after_save(p.W, Key(inst.cls, p.inst.f.id))]

\* ------------------------------------------------------ the Index Engine

IndexSpec(ds, attr) == [dataset |-> ds, attr_name |-> attr]

AllIndexSpecs == {IndexSpec(ds, attr) : ds \in DataSetIds, attr \in AttrNames}

\* self.dataset.indexes.all()
DataSetIndexes(W, ds) == {ix \in W.indexes : ix.dataset = ds}

\* The value at the index spec's field path, Null when the blob lacks it.
Extract(index, data) ==
    IF index.attr_name \in data.keys THEN data.val[index.attr_name] ELSE Null

RowsOf(ivals, thing, index) == {r \in ivals : r.thing = thing /\ r.index = index}

\* IndexedValue.objects.create: a new row, whatever rows exist.
create(ivals, thing, index, data) ==
    ivals \cup {[thing |-> thing, index |-> index,
                 n |-> Cardinality(RowsOf(ivals, thing, index)) + 1,
                 value |-> Extract(index, data)]}

\* IndexedValue.objects.sync: the row of (thing, index) is updated in place
\* when there is one and created otherwise.
sync(ivals, thing, index, data) ==
    IF RowsOf(ivals, thing, index) # {}
    THEN {IF r \in RowsOf(ivals, thing, index)
          THEN [r EXCEPT !.value = Extract(index, data)] ELSE r : r \in ivals}
    ELSE create(ivals, thing, index, data)

\* A mutant of index_one: the loop body appends a row instead of syncing.
index_one_create(ivals, self, index, data) ==
    create(ivals, self.f.id, index, data)

\* The body of the loop of index_values, line 114.
index_one(ivals, self, index, data) ==
    sync(ivals, self.f.id, index, data)

RECURSIVE index_loop(_, _, _, _)
\* for index in indexes: IndexedValue.objects.sync(self, index, data=data)
index_loop(ivals, self, indexes, data) ==
    IF indexes = {} THEN ivals
    ELSE LET index == CHOOSE ix \in indexes : TRUE
         IN  index_loop(index_one(ivals, self, index, data), self,
                        indexes \ {index}, data)

\* The indexes argument of index_values: None, or a collection of specs.
ArgNone == [given |-> FALSE, set |-> {}]
ArgSet(S) == [given |-> TRUE, set |-> S]

\* A mutant of index_values_indexes: "if not indexes" for "if indexes is None".
index_values_indexes_falsy(W, self, arg) ==
    IF arg.set = {} THEN DataSetIndexes(W, self.f.dataset) ELSE arg.set

\* Lines 106-107: the specs index_values works on.
index_values_indexes(W, self, arg) ==
    IF ~arg.given THEN DataSetIndexes(W, self.f.dataset) ELSE arg.set

\* A mutant of index_values: the loop stops after the first spec.
index_values_first_only(W, self, arg) ==
    LET indexes == index_values_indexes(W, self, arg)
        data == loads(self.f.data)
    IN  IF Cardinality(indexes) = 0 THEN Outcome(W, self, "none", 0)
        ELSE IF ~data.ok THEN Outcome(W, self, "reindex", 0)
        ELSE Outcome([W EXCEPT !.ivals =
                         index_loop(W.ivals, self, {CHOOSE ix \in indexes : TRUE}, data)],
                     self, "none", 1)

\* SubmittedThing.index_values
index_values(W, self, arg) ==
    LET indexes == index_values_indexes(W, self, arg)
        data == loads(self.f.data)
    IN  IF Cardinality(indexes) = 0 THEN Outcome(W, self, "none", 0)
        ELSE IF ~data.ok THEN Outcome(W, self, "reindex", 0)
        ELSE Outcome([W EXCEPT !.ivals = index_loop(W.ivals, self, indexes, data)],
                     self, "none", Cardinality(indexes))

\* ------------------------------------------------- the save orchestration

\* A mutant of ActionSave: the Action is written over the latest row of the
\* log when there is one.
ActionSave_overwrite(W, row) ==
    LET W2 == IF W.actions = <<>>
              THEN [W EXCEPT !.actions = Append(W.actions, row)]
              ELSE [W EXCEPT !.actions[Len(W.actions)] = row]
        key == Key("Action", Len(W2.actions))
    IN  clear_after_save(Touch(W2, key), key)

\* Action.save(): Action is a CacheClearingModel; the row is appended and
\* the cache of the Action and of the chain above it is cleared.
ActionSave(W, row) ==
    LET W2 == [W EXCEPT !.actions = Append(W.actions, row)]
        key == Key("Action", Len(W2.actions))
    IN  clear_after_save(Touch(W2, key), key)

\* Attachment.save(): as for an Action.
AttachmentSave(W, row) ==
    LET W2 == [W EXCEPT !.attachments = Append(W.attachments, row)]
        key == Key("Attachment", Len(W2.attachments))
    IN  clear_after_save(Touch(W2, key), key)

\* A mutant of is_new_of: the identity check made after persisting.
is_new_after_persist(before, after) == after.f.id = NoId

\* Line 117: is_new = (self.id == None), read before super().save().
is_new_of(before, after) == before.f.id = NoId

\* Line 127: 'create' if is_new else 'update'.
action_kind(is_new) == IF is_new THEN "create" ELSE "update"

\* Lines 126-129: the Action a non-silent save records.
NewAction(is_new, self, source) ==
    [action |-> action_kind(is_new), thing |-> self.f.id, source |-> source]

\* A mutant of save: the Action is recorded before the reindex step runs.
save_audit_first(W, self, silent, source, reindex, storeOk) ==
    LET p == super_save(W, self, storeOk)
        is_new == is_new_of(self, p.inst)
        a == IF ~silent THEN ActionSave(p.W, NewAction(is_new, p.inst, source))
             ELSE p.W
        r == IF reindex THEN index_values(a, p.inst, ArgNone)
             ELSE Outcome(a, p.inst, "none", 0)
    IN  IF p.raised # "none" THEN p
        ELSE Outcome(r.W, p.inst, IF r.raised # "none" THEN "reindex" ELSE "none",
                     p.writes + r.writes + (IF silent THEN 0 ELSE 1))

\* A mutant of save: a rejected write is swallowed and the later steps run.
save_swallow(W, self, silent, source, reindex, storeOk) ==
    LET p == super_save(W, self, storeOk)
        is_new == is_new_of(self, p.inst)
        r == IF reindex /\ p.inst.f.id # NoId THEN index_values(p.W, p.inst, ArgNone)
             ELSE Outcome(p.W, p.inst, "none", 0)
        a == IF ~silent THEN ActionSave(r.W, NewAction(is_new, p.inst, source))
             ELSE r.W
    IN  IF r.raised # "none" THEN Outcome(r.W, p.inst, "reindex", p.writes + r.writes)
        ELSE Outcome(a, p.inst, p.raised,
                     p.writes + r.writes + (IF silent THEN 0 ELSE 1))

\* SubmittedThing.save(silent, source, reindex): persist, reindex unless
\* told not to, record an Action unless silent. An exception of a step
\* leaves the later steps undone and the earlier ones in place.
save(W, self, silent, source, reindex, storeOk) ==
    LET p == super_save(W, self, storeOk)
        is_new == is_new_of(self, p.inst)
        r == IF reindex THEN index_values(p.W, p.inst, ArgNone)
             ELSE Outcome(p.W, p.inst, "none", 0)
        a == IF ~silent THEN ActionSave(r.W, NewAction(is_new, p.inst, source))
             ELSE r.W
    IN  IF p.raised # "none" THEN p
        ELSE IF r.raised # "none"
        THEN Outcome(r.W, p.inst, "reindex", p.writes + r.writes)
        ELSE Outcome(a, p.inst, "none",
                     p.writes + r.writes + (IF silent THEN 0 ELSE 1))

\* Lines 119 and 132: ret = super(SubmittedThing, self).save(...); return
\* ret. The call returns what models.Model.save returned through
\* CacheClearingModel.save, which is None: the identity is assigned on the
\* instance, out.inst, and the instance is not what is returned.
save_return(out) == IF out.raised = "none" THEN None ELSE "raised"

\* ------------------------------------------------------------------ clone

\* The keyword arguments a caller passes to clone: none.
NoKwargs == [k \in {} |-> None]

\* clone(inst_kwargs, commit): a class without the CloneableModelMixin base
\* has no such method, and the call raises AttributeError. The copy is
\* built from the copied fields and the overrides and, when commit, saved
\* with the default flags.
clone(W, self, inst_kwargs, commit) ==
    IF self.cls \notin Cloneable THEN Outcome(W, self, "attribute", 0)
    ELSE LET new_inst == Construct(self.cls, clone_kwargs(self, inst_kwargs))
         IN  IF commit THEN save(W, new_inst, FALSE, "", TRUE, TRUE)
             ELSE Outcome(W, new_inst, "none", 0)

\* Line 60: return new_inst.
clone_return(out) == IF out.raised = "none" THEN "instance" ELSE "raised"

\* ------------------------------------------------------- DataSet.reindex

RECURSIVE reindex_loop(_, _, _, _)
\* for thing in things: thing.index_values(indexes), in id order from
\* `from` on; an exception of one Thing ends the loop.
reindex_loop(W, ds, indexes, from) ==
    IF from > Len(W.things) THEN Outcome(W, W.things, "none", 0)
    ELSE IF W.things[from].f.dataset # ds THEN reindex_loop(W, ds, indexes, from + 1)
    ELSE LET r == index_values(W, W.things[from], ArgSet(indexes))
         IN  IF r.raised # "none" THEN r
             ELSE LET rest == reindex_loop(r.W, ds, indexes, from + 1)
                  IN  [rest EXCEPT !.writes = rest.writes + r.writes]

\* A mutant of reindex: the Things are reindexed against no spec.
reindex_without_indexes(W, ds) == reindex_loop(W, ds, {}, 1)

RECURSIVE reindex_every_thing_loop(_, _, _)
reindex_every_thing_loop(W, indexes, from) ==
    IF from > Len(W.things) THEN Outcome(W, W.things, "none", 0)
    ELSE LET r == index_values(W, W.things[from], ArgSet(indexes))
         IN  IF r.raised # "none" THEN r
             ELSE LET rest == reindex_every_thing_loop(r.W, indexes, from + 1)
                  IN  [rest EXCEPT !.writes = rest.writes + r.writes]

\* A mutant of reindex: the Things of every dataset are reindexed against
\* the specs of the dataset.
reindex_every_thing(W, ds) ==
    reindex_every_thing_loop(W, DataSetIndexes(W, ds), 1)

\* DataSet.reindex
reindex(W, ds) == reindex_loop(W, ds, DataSetIndexes(W, ds), 1)

\* ------------------------------------------------- DataSet and its origins

DataSetRow(id, name) == [id |-> id, display_name |-> name]

\* The display names a caller gives a DataSet.
DisplayNames == {"parks", "trees"}

\* The permission a new Origin starts with: everything allowed.
DefaultPermission ==
    [can_retrieve |-> TRUE, can_create |-> TRUE, can_update |-> TRUE,
     can_destroy |-> TRUE]

OriginsOf(origs, ds, pattern) ==
    {o \in origs : o.dataset = ds /\ o.pattern = pattern}

\* Origin.objects.create(dataset=instance, pattern=pattern) followed by
\* origin.permissions.all().update(can_update=False, can_destroy=False):
\* a new Origin row, the n-th of its dataset and pattern, whose permissions
\* have update and destroy switched off.
seed_origin(origs, ds, pattern) ==
    LET origin == [dataset |-> ds, pattern |-> pattern,
                   n |-> Cardinality(OriginsOf(origs, ds, pattern)) + 1,
                   permissions |-> {DefaultPermission}]
        updated == {[perm EXCEPT !.can_update = FALSE, !.can_destroy = FALSE] :
                       perm \in origin.permissions}
    IN  origs \cup {[origin EXCEPT !.permissions = updated]}

\* A mutant of after_create_dataset: the origins are seeded on every save.
after_create_dataset_always(origs, instance, created) ==
    seed_origin(seed_origin(origs, instance, "(?:www.)?openplans.org"),
                instance, "openplans.github.io")

\* after_create_dataset, the post_save receiver of DataSet.
after_create_dataset(origs, instance, created) ==
    IF created
    THEN seed_origin(seed_origin(origs, instance, "(?:www.)?openplans.org"),
                     instance, "openplans.github.io")
    ELSE origs

\* DataSet.save of an instance without an id (NoId) or with one: the row is
\* inserted or replaced, and post_save is sent with created set on insert.
DataSetSave(rows, origs, id, name) ==
    LET created == id = NoId
        pk == IF created THEN Len(rows) + 1 ELSE id
    IN  [datasets |-> IF created THEN Append(rows, DataSetRow(pk, name))
                      ELSE [rows EXCEPT ![pk] = DataSetRow(pk, name)],
         origins |-> after_create_dataset(origs, pk, created),
         id |-> pk, created |-> created]

\* The origins of the datasets that exist from the start, as their creation
\* seeded them.
SeededOrigins ==
    after_create_dataset(after_create_dataset({}, 1, TRUE), 2, TRUE)

\* ------------------------------------------------------- the Cache Layer

CacheEntry(W, key) == {e \in W.cache : e.key = key}

\* get_or_set(key, compute_fn): the cached representation when there is one,
\* else the representation computed now, which is stored. A backend that
\* does not answer gives no entry and stores none.
get_or_set(W, key) ==
    IF ~W.up \/ CacheEntry(W, key) # {} THEN W
    ELSE [W EXCEPT !.cache = W.cache \cup {[key |-> key, fresh |-> TRUE]}]

\* What get_or_set returns: the entry of the key ("cached", or "stale" when
\* a write has outdated it), or the representation computed now.
get_or_set_value(W, key) ==
    IF ~W.up \/ CacheEntry(W, key) = {} THEN "computed"
    ELSE IF \A e \in CacheEntry(W, key) : e.fresh THEN "cached" ELSE "stale"

\* ---------------------------------------------------------------- state

VARIABLES
    things,       \* the SubmittedThing rows (Places and Submissions)
    indexes,      \* the Index Specs
    ivals,        \* the Indexed Value rows
    actions,      \* the Action rows
    attachments,  \* the Attachment rows
    cache,        \* the cache entries
    last,         \* the call that was made last, and how it ended
    procs,        \* the requests in progress, each at a step of its call
    dataset_rows, \* the DataSet rows, row i holding the DataSet of id i
    origins,      \* the allowed Origin rows of the datasets
    cache_up      \* whether the cache backend answers

vars == <<things, indexes, ivals, actions, attachments, cache, last, procs,
          dataset_rows, origins, cache_up>>

Current == World(things, indexes, ivals, actions, attachments, cache, cache_up)

\* The requests that may run at the same time.
Procs == {"p1", "p2"}

\* A request in progress: the call (op), the step it is at (pc), the
\* instance or the cache key it works on, its flags, the index specs it has
\* still to sync, and, for a cache read, whether the representation it
\* computed is still that of the store (held), and the effects it has had
\* on the store and the cache so far, in the order they took place (did).
Idle ==
    [pc |-> "idle", op |-> "none", self |-> Construct("Place", [k \in {} |-> None]),
     key |-> Key("none", NoId), silent |-> FALSE, source |-> "", reindex |-> FALSE,
     is_new |-> FALSE, todo |-> {}, held |-> "none", did |-> <<>>]

\* The record of a call: the operation, the key of the entity it worked on,
\* its arguments (is_new is self.id == None at the call, storeOk whether the
\* store accepts the write, repeat whether the call before it was the same
\* call and returned; for a clone the instance it was called on, the
\* overrides and commit), where it raised, the rows it wrote, the number of
\* cache entries it removed, the kind of value it returned (value: None or
\* an instance), and for a clone the instance it returned.
NoCall ==
    [op |-> "init", key |-> Key("none", NoId), is_new |-> FALSE, silent |-> FALSE,
     source |-> "", reindex |-> FALSE, arg |-> ArgNone, storeOk |-> TRUE,
     repeat |-> FALSE, self |-> Idle.self, kwargs |-> NoKwargs, commit |-> FALSE,
     raised |-> "none", writes |-> 0, cleared |-> 0, value |-> None,
     ret |-> Idle.self]

Init ==
    /\ things = <<>>
    /\ indexes = {}
    /\ ivals = {}
    /\ actions = <<>>
    /\ attachments = <<>>
    /\ cache = {}
    /\ last = NoCall
    /\ procs = [p \in Procs |-> Idle]
    /\ dataset_rows = <<DataSetRow(1, "parks"), DataSetRow(2, "parks")>>
    /\ origins = SeededOrigins
    /\ cache_up = TRUE

CachedKeys(W) == {e.key : e \in W.cache}

\* The number of cache entries a call removed, W being the world it left.
Removed(W) == Cardinality(CachedKeys(Current) \ CachedKeys(W))

\* Whether the store has fewer than maxRows Action and Attachment rows.
Room(maxRows) == Len(actions) + Len(attachments) < maxRows

\* Whether the store has room for one more Action or Attachment row.
RoomForRow == Room(MaxActions)

\* The world a step leaves becomes the state.
Becomes(W) ==
    /\ things' = W.things
    /\ indexes' = W.indexes
    /\ ivals' = W.ivals
    /\ actions' = W.actions
    /\ attachments' = W.attachments
    /\ cache' = W.cache
    /\ UNCHANGED <<dataset_rows, origins, cache_up>>

\* The world a whole call leaves becomes the state; no request is touched.
Returns(W) == Becomes(W) /\ UNCHANGED procs

PlaceIds == {i \in 1..Len(things) : things[i].cls = "Place"}

\* An instance a caller builds to submit: no identity yet.
NewThing(cls, ds, data, place) ==
    Construct(cls,
        IF cls = "Place"
        THEN [dataset |-> ds, data |-> data, geometry |-> "g0"]
        ELSE [dataset |-> ds, data |-> data, place |-> place, set_name |-> "comments"])

\* A caller saves `self` with the given flags, the store holding at most
\* maxRows Action and Attachment rows.
SaveUpTo(maxRows, self, silent, source, reindex_, storeOk) ==
    LET out == save(Current, self, silent, source, reindex_, storeOk)
    IN  /\ silent \/ Room(maxRows)
        /\ Returns(out.W)
        /\ last' = [NoCall EXCEPT !.op = "save", !.key = Key(self.cls, out.inst.f.id),
                                  !.self = self,
                                  !.is_new = (self.f.id = NoId), !.silent = silent,
                                  !.source = source, !.reindex = reindex_,
                                  !.storeOk = storeOk, !.raised = out.raised,
                                  !.writes = out.writes,
                                  !.cleared = Removed(out.W),
                                  !.value = save_return(out)]

\* A caller saves `self` with the given flags.
Save(self, silent, source, reindex_, storeOk) ==
    SaveUpTo(MaxActions, self, silent, source, reindex_, storeOk)

\* A new index spec is defined on a dataset.
AddIndex(ds, attr) ==
    /\ IndexSpec(ds, attr) \notin indexes
    /\ indexes' = indexes \cup {IndexSpec(ds, attr)}
    /\ last' = [NoCall EXCEPT !.op = "add_index", !.key = DataSetKey(ds), !.writes = 1]
    /\ UNCHANGED <<things, ivals, actions, attachments, cache, procs,
                   dataset_rows, origins, cache_up>>

\* A caller saves a Place or a Submission that has no identity yet. A
\* Submission is submitted to a Place, in the Place's dataset. A write the
\* store rejects is tried with the default flags.
SaveNewUpTo(maxRows, maxThings, classes, datasets, blobs, reindexes) ==
    /\ Len(things) < maxThings
    /\ \E cls \in classes, data \in blobs, storeOk \in BOOLEAN :
        \E silent \in (IF storeOk THEN BOOLEAN ELSE {FALSE}),
           reindex_ \in (IF storeOk THEN reindexes ELSE {TRUE}),
           place \in (IF cls = "Place" THEN {NoId} ELSE PlaceIds) :
          \E source \in (IF silent THEN {""} ELSE Sources),
             ds \in (IF cls = "Place" THEN datasets ELSE {things[place].f.dataset}) :
            SaveUpTo(maxRows, NewThing(cls, ds, data, place), silent, source,
                     reindex_, storeOk)

SaveNew(maxThings, classes, datasets, blobs, reindexes) ==
    SaveNewUpTo(MaxActions, maxThings, classes, datasets, blobs, reindexes)

\* A caller loads a Thing, replaces its blob and saves it.
SaveExistingUpTo(maxRows, blobs, reindexes) ==
    \E id \in 1..Len(things), data \in blobs, storeOk \in BOOLEAN :
      \E silent \in (IF storeOk THEN BOOLEAN ELSE {FALSE}),
         reindex_ \in (IF storeOk THEN reindexes ELSE {TRUE}) :
        \E source \in (IF silent THEN {""} ELSE Sources) :
            SaveUpTo(maxRows, [things[id] EXCEPT !.f.data = data], silent, source,
                     reindex_, storeOk)

SaveExisting(blobs, reindexes) == SaveExistingUpTo(MaxActions, blobs, reindexes)

\* The indexes arguments a caller passes for a Thing of dataset ds: none,
\* an empty collection, the dataset's specs.
IndexesArgs(ds) ==
    {ArgNone, ArgSet({}), ArgSet(DataSetIndexes(Current, ds))}

\* A caller loads a Thing and calls index_values on it.
IndexValues ==
    \E id \in 1..Len(things) :
        \E arg \in IndexesArgs(things[id].f.dataset) :
            LET out == index_values(Current, things[id], arg)
                key == ThingKey(Current, id)
            IN  /\ Returns(out.W)
                /\ last' = [NoCall EXCEPT
                              !.op = "index_values", !.key = key, !.arg = arg,
                              !.repeat = (/\ last.op = "index_values"
                                          /\ last.key = key
                                          /\ last.arg = arg
                                          /\ last.raised = "none"),
                              !.raised = out.raised, !.writes = out.writes]

\* A caller reindexes a dataset.
Reindex ==
    \E ds \in DataSetIds :
        LET out == reindex(Current, ds)
        IN  /\ Returns(out.W)
            /\ last' = [NoCall EXCEPT !.op = "reindex", !.key = DataSetKey(ds),
                                      !.raised = out.raised, !.writes = out.writes]

\* A caller attaches a file to a Thing.
AttachmentAdd ==
    /\ RoomForRow
    /\ \E id \in 1..Len(things) :
        LET W == AttachmentSave(Current, [thing |-> id, name |-> "file"])
        IN  /\ Returns(W)
            /\ last' = [NoCall EXCEPT
                          !.op = "attach", !.key = Key("Attachment", Len(W.attachments)),
                          !.writes = 1,
                          !.cleared = Removed(W)]

\* The keys a reader asks the cache for: the datasets and the Things.
ReadKeys(datasets) ==
    {DataSetKey(ds) : ds \in datasets} \cup {ThingKey(Current, i) : i \in 1..Len(things)}

\* A reader asks for the representation of an entity.
GetOrSet(datasets) ==
    \E key \in ReadKeys(datasets) :
        /\ Returns(get_or_set(Current, key))
        /\ last' = [NoCall EXCEPT !.op = "get_or_set", !.key = key,
                                  !.value = get_or_set_value(Current, key)]

\* A caller clears the cache of a Thing.
Clear ==
    \E id \in 1..Len(things) :
        LET W == clear(Current, ThingKey(Current, id))
        IN  /\ Returns(W)
            /\ last' = [NoCall EXCEPT
                          !.op = "clear", !.key = ThingKey(Current, id),
                          !.cleared = Removed(W)]

\* The overrides a caller passes to clone an instance of class cls: none,
\* or a new value for one field of the class.
CloneOverrides(cls) ==
    {NoKwargs,
     IF cls = "Place" THEN [geometry |-> "g1"] ELSE [set_name |-> "votes"]}

\* A caller loads a Thing and calls clone on it.
Clone ==
    \E id \in 1..Len(things), commit \in BOOLEAN :
      \E inst_kwargs \in CloneOverrides(things[id].cls) :
        LET out == clone(Current, things[id], inst_kwargs, commit)
        IN  /\ commit => (RoomForRow /\ Len(things) < MaxTree + MaxCopies)
            /\ Returns(out.W)
            /\ last' = [NoCall EXCEPT
                          !.op = "clone", !.key = ThingKey(Current, id),
                          !.self = things[id], !.kwargs = inst_kwargs,
                          !.commit = commit, !.raised = out.raised,
                          !.writes = out.writes, !.value = clone_return(out),
                          !.ret = out.inst]

\* A caller saves a DataSet: a new one, or an existing one under a display
\* name. DataSet is a CacheClearingModel: its cache is cleared.
SaveDataSet ==
    \E id \in {NoId} \cup (1..Len(dataset_rows)), name \in DisplayNames :
        LET out == DataSetSave(dataset_rows, origins, id, name)
            key == DataSetKey(out.id)
            W == clear_after_save(Touch(Current, key), key)
        IN  /\ id = NoId => Len(dataset_rows) < MaxDataSets
            /\ dataset_rows' = out.datasets
            /\ origins' = out.origins
            /\ cache' = W.cache
            /\ last' = [NoCall EXCEPT !.op = "save_dataset", !.key = key,
                                      !.is_new = out.created,
                                      !.cleared = Removed(W)]
            /\ UNCHANGED <<things, indexes, ivals, actions, attachments, procs,
                           cache_up>>

\* The cache backend stops answering.
CacheFails ==
    /\ cache_up
    /\ cache_up' = FALSE
    /\ last' = [NoCall EXCEPT !.op = "cache_fails"]
    /\ UNCHANGED <<things, indexes, ivals, actions, attachments, cache, procs,
                   dataset_rows, origins>>

\* The cache backend answers again, with the entries it held or without.
CacheRecovers ==
    /\ ~cache_up
    /\ cache_up' = TRUE
    /\ \E kept \in BOOLEAN : cache' = IF kept THEN cache ELSE {}
    /\ last' = [NoCall EXCEPT !.op = "cache_recovers"]
    /\ UNCHANGED <<things, indexes, ivals, actions, attachments, procs,
                   dataset_rows, origins>>

\* -------------------------------------------------- requests in progress
\* Requests run at the same time: each is one call, taken a step at a time,
\* a step being one access to the store or to the cache. A request works on
\* the instance it loaded, not on the row.

\* No request has started.
Quiet == \A p \in Procs : procs[p].pc = "idle"

\* A write to the entity of `key` while readers hold a representation they
\* have computed and not stored yet: what they hold of it goes stale.
Held(ps, W, key) ==
    [p \in Procs |->
        IF ps[p].pc = "set" /\ ps[p].key \in EmbeddedIn(W, key)
        THEN [ps[p] EXCEPT !.held = "stale"] ELSE ps[p]]

\* Lines 125-132: after the reindex step, the Action unless silent.
AfterReindex(req) == IF req.silent THEN "done" ELSE "audit"

\* A mutant of AfterClear: the Action is recorded right after the persist
\* step and the call returns.
AfterClear_audit_first(req) ==
    IF ~req.silent THEN "audit" ELSE IF req.reindex THEN "indexes" ELSE "done"

\* Lines 121-122: after the persist step, the reindex step if reindex.
AfterClear(req) == IF req.reindex THEN "indexes" ELSE AfterReindex(req)

\* The Action rows the requests in progress are still to record.
ActionsToCome ==
    Cardinality({p \in Procs : /\ procs[p].op = "save"
                               /\ ~procs[p].silent
                               /\ procs[p].pc \notin {"done", "raised"}})

\* A request loads a Thing, replaces its blob and calls save.
BeginSave(p, blobs, silents, reindexes) ==
    /\ procs[p].pc = "idle"
    /\ \E id \in 1..Len(things), data \in blobs, silent \in silents,
          reindex_ \in reindexes :
        /\ silent \/ Len(actions) + Len(attachments) + ActionsToCome < MaxActions
        /\ procs' = [procs EXCEPT ![p] =
              [Idle EXCEPT !.pc = "persist", !.op = "save",
                           !.self = [things[id] EXCEPT !.f.data = data],
                           !.key = ThingKey(Current, id), !.silent = silent,
                           !.source = IF silent THEN "" ELSE "api",
                           !.reindex = reindex_]]
    /\ UNCHANGED <<things, indexes, ivals, actions, attachments, cache, last,
                   dataset_rows, origins, cache_up>>

\* The Things that the requests in progress are still to insert.
ThingsToCome ==
    Cardinality({p \in Procs : procs[p].op = "save" /\ procs[p].pc = "persist"
                               /\ procs[p].self.f.id = NoId})

\* A request builds a Place that has no identity yet and calls save.
BeginSaveNew(p, blobs, silents, reindexes) ==
    /\ procs[p].pc = "idle"
    /\ Len(things) + ThingsToCome < MaxThings
    /\ \E data \in blobs, silent \in silents, reindex_ \in reindexes :
        /\ silent \/ Len(actions) + Len(attachments) + ActionsToCome < MaxActions
        /\ procs' = [procs EXCEPT ![p] =
              [Idle EXCEPT !.pc = "persist", !.op = "save",
                           !.self = NewThing("Place", 1, data, NoId),
                           !.key = Key("Place", NoId), !.silent = silent,
                           !.source = IF silent THEN "" ELSE "api",
                           !.reindex = reindex_]]
    /\ UNCHANGED <<things, indexes, ivals, actions, attachments, cache, last,
                   dataset_rows, origins, cache_up>>

\* Lines 117-119: is_new is read, then the row is written.
StepPersist(p) ==
    /\ procs[p].pc = "persist"
    /\ LET req == procs[p]
           out == ModelSave(Current, req.self, TRUE)
           key == Key(req.self.cls, out.inst.f.id)
       IN  /\ Becomes(out.W)
           /\ procs' = [Held(procs, out.W, key) EXCEPT ![p] =
                 [req EXCEPT !.pc = "clear", !.self = out.inst, !.key = key,
                             !.is_new = is_new_of(req.self, out.inst),
                             !.did = Append(req.did, "persist")]]
    /\ UNCHANGED last

\* Line 119, the rest of CacheClearingModel.save: the cache is cleared.
StepClear(p) ==
    /\ procs[p].pc = "clear"
    /\ Becomes(clear_after_save(Current, procs[p].key))
    /\ procs' = [procs EXCEPT ![p] =
          [procs[p] EXCEPT !.pc = AfterClear(procs[p]),
                           !.did = Append(procs[p].did, "clear")]]
    /\ UNCHANGED last

\* Lines 106-112: the dataset's specs are read and the blob is parsed.
StepIndexes(p) ==
    /\ procs[p].pc = "indexes"
    /\ LET req == procs[p]
           ixs == index_values_indexes(Current, req.self, ArgNone)
           data == loads(req.self.f.data)
       IN  procs' = [procs EXCEPT ![p] =
              IF Cardinality(ixs) = 0 THEN [req EXCEPT !.pc = AfterReindex(req)]
              ELSE IF ~data.ok THEN [req EXCEPT !.pc = "raised"]
              ELSE [req EXCEPT !.pc = "sync", !.todo = ixs]]
    /\ UNCHANGED <<things, indexes, ivals, actions, attachments, cache, last,
                   dataset_rows, origins, cache_up>>

\* Lines 113-114: one turn of the loop; the queryset has no ordering.
StepSync(p) ==
    /\ procs[p].pc = "sync"
    /\ \E index \in procs[p].todo :
        LET req == procs[p]
            todo == req.todo \ {index}
        IN  /\ ivals' = index_one(ivals, req.self, index, loads(req.self.f.data))
            /\ procs' = [procs EXCEPT ![p] =
                  [req EXCEPT !.todo = todo, !.did = Append(req.did, "index"),
                              !.pc = IF todo = {} THEN AfterReindex(req) ELSE "sync"]]
    /\ UNCHANGED <<things, indexes, actions, attachments, cache, last,
                   dataset_rows, origins, cache_up>>

\* Lines 125-130: the Action is recorded.
StepAudit(p) ==
    /\ procs[p].pc = "audit"
    /\ LET req == procs[p]
           W == ActionSave(Current, NewAction(req.is_new, req.self, req.source))
       IN  /\ Becomes(W)
           /\ procs' = [Held(procs, W, Key("Action", Len(W.actions)))
                           EXCEPT ![p] = [req EXCEPT !.pc = "done",
                                                     !.did = Append(req.did, "audit")]]
    /\ UNCHANGED last

\* A request asks the cache for the representation of an entity.
BeginRead(p, datasets) ==
    /\ procs[p].pc = "idle"
    /\ \E key \in ReadKeys(datasets) :
        procs' = [procs EXCEPT ![p] =
            [Idle EXCEPT !.pc = "get", !.op = "get_or_set", !.key = key]]
    /\ UNCHANGED <<things, indexes, ivals, actions, attachments, cache, last,
                   dataset_rows, origins, cache_up>>

\* get_or_set, the read: a hit returns the entry, a miss goes on to compute.
StepGet(p) ==
    /\ procs[p].pc = "get"
    /\ LET req == procs[p]
           hit == IF cache_up THEN CacheEntry(Current, req.key) ELSE {}
       IN  procs' = [procs EXCEPT ![p] =
              IF hit = {} THEN [req EXCEPT !.pc = "compute"]
              ELSE [req EXCEPT !.pc = "done",
                               !.held = IF \A e \in hit : e.fresh
                                        THEN "fresh" ELSE "stale"]]
    /\ UNCHANGED <<things, indexes, ivals, actions, attachments, cache, last,
                   dataset_rows, origins, cache_up>>

\* get_or_set, compute_fn: the representation of the rows as they are now.
StepCompute(p) ==
    /\ procs[p].pc = "compute"
    /\ procs' = [procs EXCEPT ![p] = [procs[p] EXCEPT !.pc = "set", !.held = "fresh"]]
    /\ UNCHANGED <<things, indexes, ivals, actions, attachments, cache, last,
                   dataset_rows, origins, cache_up>>

\* get_or_set, the store: what was computed is put under the key.
StepSet(p) ==
    /\ procs[p].pc = "set"
    /\ LET req == procs[p]
       IN  /\ cache' = IF ~cache_up THEN cache
                       ELSE {e \in cache : e.key # req.key}
                            \cup {[key |-> req.key, fresh |-> req.held = "fresh"]}
           /\ procs' = [procs EXCEPT ![p] = [req EXCEPT !.pc = "done"]]
    /\ UNCHANGED <<things, indexes, ivals, actions, attachments, last,
                   dataset_rows, origins, cache_up>>

\* ------------------------------------------------------- specifications

\* The index specs that get defined: two on dataset 1, none on dataset 2.
AddIndexes == AddIndex(1, "name") \/ AddIndex(1, "age")

\* Spec: the lifecycle of Places with their Indexed Values and Actions. A
\* Place is submitted with two attributes or with an unparseable blob, and
\* updated to a blob with one attribute or to an unparseable one.
Next ==
    \/ AddIndexes
    \/ SaveNew(MaxThings, {"Place"}, DataSetIds, {BlobNameBAgeA, BlobMalformed}, BOOLEAN)
    \/ SaveExisting({BlobNameA, BlobMalformed}, BOOLEAN)
    \/ Reindex

Spec == Init /\ [][Next]_vars

\* SpecIndex: the Places of two datasets, saved and updated without
\* reindexing, the index specs of dataset 1, and the callers of
\* index_values.
NextIndex ==
    \/ AddIndexes
    \/ SaveNew(MaxThings, {"Place"}, DataSetIds, {BlobNameBAgeA, BlobMalformed}, {FALSE})
    \/ SaveExisting({BlobNameA}, {FALSE})
    \/ IndexValues

SpecIndex == Init /\ [][NextIndex]_vars

\* SpecStore: the Places of one dataset with one index spec, their Indexed
\* Values and Actions, the readers of the cache, and a store that may reject
\* a write.
NextStore ==
    \/ AddIndex(1, "name")
    \/ SaveNew(MaxThings, {"Place"}, {1}, {BlobNameA}, {TRUE})
    \/ SaveExisting({BlobNameBAgeA}, {TRUE})
    \/ GetOrSet({1})

SpecStore == Init /\ [][NextStore]_vars


\* SpecCache: the Places of one dataset with their Submissions, Actions and
\* Attachments, and the readers of the cache.
NextCache ==
    \/ SaveNew(MaxTree, ThingClasses, {1}, {BlobNameA}, {TRUE})
    \/ SaveExisting({BlobNameA}, {TRUE})
    \/ AttachmentAdd
    \/ GetOrSet({1})
    \/ Clear

SpecCache == Init /\ [][NextCache]_vars

\* SpecLog: the Places of one dataset with its index specs, saved with any
\* flags, and the action log they leave.
NextLog ==
    \/ AddIndexes
    \/ SaveNewUpTo(MaxLog, MaxThings, {"Place"}, {1}, {BlobNameA}, BOOLEAN)
    \/ SaveExistingUpTo(MaxLog, {BlobNameBAgeA, BlobMalformed}, BOOLEAN)

SpecLog == Init /\ [][NextLog]_vars

\* SpecOrigins: the DataSets, created and saved again, their origins, and
\* the readers of their cache.
NextOrigins ==
    \/ SaveDataSet
    \/ GetOrSet(DataSetIds)

SpecOrigins == Init /\ [][NextOrigins]_vars

\* SpecOutage: the Places of one dataset with one index spec, their Indexed
\* Values and Actions, the readers of the cache, and a cache backend that
\* stops answering and answers again.
NextOutage ==
    \/ AddIndex(1, "name")
    \/ SaveNew(MaxThings, {"Place"}, {1}, {BlobNameA}, {TRUE})
    \/ SaveExisting({BlobMalformed}, {TRUE})
    \/ GetOrSet({1})
    \/ CacheFails
    \/ CacheRecovers

SpecOutage == Init /\ [][NextOutage]_vars

\* SpecReindex: the Places of two datasets, saved and updated without
\* reindexing, the index specs defined on the datasets before and after,
\* and the reindexing of a dataset.
NextReindex ==
    \/ AddIndex(1, "name")
    \/ AddIndex(2, "name")
    \/ SaveNew(MaxTree, {"Place"}, DataSetIds, {BlobNameA}, {FALSE})
    \/ SaveExisting({BlobNameBAgeA}, {FALSE})
    \/ Reindex

SpecReindex == Init /\ [][NextReindex]_vars

\* SpecClone: the Places of one dataset with their Submissions, and the
\* callers that clone them.
NextClone ==
    \/ AddIndex(1, "name")
    \/ SaveNew(MaxTree, ThingClasses, {1}, {BlobNameA, BlobMalformed}, {TRUE})
    \/ Clone

SpecClone == Init /\ [][NextClone]_vars

\* SpecRace: once a Place and the index specs of its dataset exist, two
\* requests save the Place at the same time, each with its own blob, and
\* both reindex.
NextRace ==
    \/ Quiet /\ AddIndexes
    \/ Quiet /\ SaveNew(MaxThings, {"Place"}, {1}, {BlobNameA}, {TRUE})
    \/ \E p \in Procs : BeginSave(p, {BlobNameA, BlobNameBAgeA}, BOOLEAN, {TRUE})
    \/ \E p \in Procs : StepPersist(p)
    \/ \E p \in Procs : StepClear(p)
    \/ \E p \in Procs : StepIndexes(p)
    \/ \E p \in Procs : StepSync(p)
    \/ \E p \in Procs : StepAudit(p)

SpecRace == Init /\ [][NextRace]_vars

\* SpecReaders: once a Place exists, requests read the cache while others
\* save the Place silently and without reindexing.
NextReaders ==
    \/ Quiet /\ SaveNew(MaxThings, {"Place"}, {1}, {BlobNameA}, {FALSE})
    \/ \E p \in Procs : BeginSave(p, {BlobNameBAgeA}, {TRUE}, {FALSE})
    \/ \E p \in Procs : StepPersist(p)
    \/ \E p \in Procs : StepClear(p)
    \/ \E p \in Procs : BeginRead(p, {1})
    \/ \E p \in Procs : StepGet(p)
    \/ \E p \in Procs : StepCompute(p)
    \/ \E p \in Procs : StepSet(p)

SpecReaders == Init /\ [][NextReaders]_vars


\* SpecSteps: the index specs of dataset 1 are defined; then requests save
\* Places, new ones and persisted ones, with any flags, a step at a time,
\* while others read the cache.
NextSteps ==
    \/ Quiet /\ AddIndexes
    \/ \E p \in Procs : BeginSaveNew(p, {BlobNameBAgeA}, BOOLEAN, BOOLEAN)
    \/ \E p \in Procs : BeginSave(p, {BlobNameA}, BOOLEAN, BOOLEAN)
    \/ \E p \in Procs : StepPersist(p)
    \/ \E p \in Procs : StepClear(p)
    \/ \E p \in Procs : StepIndexes(p)
    \/ \E p \in Procs : StepSync(p)
    \/ \E p \in Procs : StepAudit(p)
    \/ \E p \in Procs : BeginRead(p, {1})
    \/ \E p \in Procs : StepGet(p)
    \/ \E p \in Procs : StepCompute(p)
    \/ \E p \in Procs : StepSet(p)

SpecSteps == Init /\ [][NextSteps]_vars

\* ================================================================ claims

\* The value a blob's text holds at a field path, read off the text.
FieldAt(blob, attr) ==
    CASE blob = BlobNameA /\ attr = "name" -> "a"
      [] blob = BlobNameBAgeA /\ attr = "name" -> "b"
      [] blob = BlobNameBAgeA /\ attr = "age" -> "a"
      [] OTHER -> Null

\* The index specs defined on the dataset of the Thing of id `id`.
SpecsOfThing(id) == {ix \in indexes : ix.dataset = things[id].f.dataset}

\* A save call that returned.
SaveReturned == last.op = "save" /\ last.raised = "none"

\* C1: right after a save with reindex=True that completes, every index
\* spec of the Thing's dataset has an Indexed Value for the Thing, holding
\* the value at the spec's field path in the Thing's current blob.
C1_SaveReindexesEverySpec ==
    (SaveReturned /\ last.reindex) =>
        \A ix \in SpecsOfThing(last.key.id) :
            \E r \in ivals :
                /\ r.thing = last.key.id
                /\ r.index = ix
                /\ r.value = FieldAt(things[last.key.id].f.data, ix.attr_name)

\* C1's case: an existing Thing of a dataset with two specs was saved with
\* reindex=True, its new blob holding one of the two paths.
C1_Witness ==
    /\ SaveReturned /\ last.reindex /\ ~last.is_new
    /\ Cardinality(SpecsOfThing(last.key.id)) = 2
    /\ things[last.key.id].f.data = BlobNameA
    /\ \E r \in ivals : r.thing = last.key.id /\ r.value = "a"
    /\ \E r \in ivals : r.thing = last.key.id /\ r.value = Null

\* The Action a save of a Thing records.
ActionOf(call) ==
    [action |-> IF call.is_new THEN "create" ELSE "update",
     thing |-> call.key.id, source |-> call.source]

\* C2 as stated: every save call adds exactly one Action ('create' for a
\* Thing without an identity, 'update' otherwise, with the caller's source
\* label) unless it is silent, and none when it is silent.
C2_EverySaveCallAddsItsAction ==
    [][last'.op = "save" =>
          IF last'.silent THEN actions' = actions
          ELSE actions' = Append(actions, ActionOf(last'))]_vars

\* C2 amended: a save call that returns adds exactly one Action ('create'
\* for a Thing without an identity before the call, 'update' otherwise,
\* with the caller's source label) unless it is silent, and none when it is
\* silent; a save call that raises, in the persistence step or in the
\* reindex step, adds none.
C2_ReturnedSaveAddsItsAction ==
    [][last'.op = "save" =>
          IF last'.silent \/ last'.raised # "none" THEN actions' = actions
          ELSE actions' = Append(actions, ActionOf(last'))]_vars

\* C2's case: a save with default flags of a Thing that had an identity
\* recorded an 'update' Action.
C2_Witness ==
    /\ SaveReturned /\ ~last.silent /\ ~last.is_new /\ last.source = "api"
    /\ Len(actions) = 1
    /\ actions[1] = [action |-> "update", thing |-> last.key.id, source |-> "api"]

\* C7: an index_values call that repeats the call before it (same Thing,
\* same specs, nothing in between) returns and leaves the Indexed Value
\* rows as the first call left them.
C7_IndexValuesIdempotent ==
    [][(last'.op = "index_values" /\ last'.repeat) =>
          (ivals' = ivals /\ last'.raised = "none")]_vars

\* C7's case: index_values was called twice in a row and synced rows.
C7_Witness ==
    /\ last.op = "index_values" /\ last.repeat /\ last.writes = 2
    /\ \E r \in ivals : r.thing = last.key.id /\ r.value # Null

\* The spec set of an index_values call is empty: an empty collection was
\* passed, or none was and the Thing's dataset defines no index.
EmptySpecSet(call) ==
    \/ call.arg.given /\ call.arg.set = {}
    \/ ~call.arg.given /\ SpecsOfThing(call.key.id) = {}

\* C8: index_values with an empty spec set returns without a write and
\* leaves every row of the store as it was.
C8_EmptySpecSetIsNoOp ==
    [][(last'.op = "index_values" /\ EmptySpecSet(last')) =>
          /\ last'.raised = "none"
          /\ last'.writes = 0
          /\ UNCHANGED <<things, indexes, ivals, actions, attachments, cache>>]_vars

\* C8's case: index_values was passed an empty collection for a Thing with
\* an unparseable blob whose dataset defines an index, and returned.
C8_Witness ==
    /\ last.op = "index_values" /\ last.arg = ArgSet({}) /\ last.raised = "none"
    /\ SpecsOfThing(last.key.id) # {}
    /\ things[last.key.id].f.data = BlobMalformed

\* The blob has no value at the spec's field path.
Misses(blob, ix) == FieldAt(blob, ix.attr_name) = Null

\* C9: indexing a Thing through index_values or through a save with
\* reindex=True, against at least one spec, never raises, and every spec the
\* blob has no value for (the blob is unparseable or lacks the path) gets a
\* null Indexed Value.
C9_ExtractionMissNeverSurfaces ==
    (/\ last.op \in {"index_values", "save"}
     /\ last.op = "save" => (last.reindex /\ last.storeOk)
     /\ last.key.id # NoId
     /\ ~EmptySpecSet(last)) =>
        /\ last.raised = "none"
        /\ \A ix \in (IF last.arg.given THEN last.arg.set ELSE SpecsOfThing(last.key.id)) :
              Misses(things[last.key.id].f.data, ix) =>
                  \E r \in ivals : r.thing = last.key.id /\ r.index = ix /\ r.value = Null


\* C3: a save whose persistence step the store rejects raises to the caller
\* and leaves the Thing rows, the Indexed Values, the Actions and the cache
\* entries as they were.
C3_FailedPersistChangesNothing ==
    [][(last'.op = "save" /\ ~last'.storeOk) =>
          /\ last'.raised = "persist"
          /\ UNCHANGED <<things, indexes, ivals, actions, attachments, cache>>]_vars

\* C3's case: a non-silent, reindexing save of a Thing with an identity was
\* rejected while the Thing had an Indexed Value and cache entries.
C3_Witness ==
    /\ last.op = "save" /\ ~last.storeOk /\ last.raised = "persist"
    /\ ~last.silent /\ last.reindex /\ ~last.is_new
    /\ \E r \in ivals : r.thing = last.key.id
    /\ Key("DataSet", 1) \in CachedKeys(Current)
    /\ last.key \in CachedKeys(Current)

Invalidating(p) == procs[p].op = "save" /\ procs[p].pc = "clear"

\* C5: get_or_set is safe under concurrent callers and writers of a key: in
\* every interleaving of a get_or_set (read miss, compute, store) with a
\* write-and-invalidate of the same entity, once the write has returned the
\* cache holds no representation computed before that write, so that no
\* read that starts then yields one.
C5_NoStaleEntrySurvivesInvalidation ==
    (\A p \in Procs : ~Invalidating(p)) => \A e \in cache : e.fresh

\* Both requests have saved the Thing `id` with reindex and have returned.
BothSaved(id) ==
    \A p \in Procs : /\ procs[p].op = "save"
                     /\ procs[p].pc = "done"
                     /\ procs[p].reindex
                     /\ procs[p].key.id = id

IdentityFields == {"id", "submittedthing_ptr"}

\* C10: clone(entity, overrides), for a Place as for a Submission, produces
\* a new entity of the same concrete type whose every field equals the
\* source's, except the identity fields, which are not copied, and the
\* fields named in overrides, which take the override value; the source is
\* left unchanged.
C10_CloneCopiesAllButIdentityAndOverrides ==
    last.op = "clone" =>
        /\ last.raised = "none"
        /\ last.ret.cls = last.self.cls
        /\ \A fld \in IdentityFields : last.ret.f[fld] # last.self.f[fld]
        /\ \A fld \in DOMAIN last.self.f \ IdentityFields :
              last.ret.f[fld] = IF fld \in DOMAIN last.kwargs
                                THEN last.kwargs[fld] ELSE last.self.f[fld]
        /\ things[last.self.f.id] = last.self

\* The positions of an effect in the effects of a request.
Positions(d, effect) == {i \in 1..Len(d) : d[i] = effect}

\* C11: within one save the steps run in the order persist, then reindex if
\* requested, then the Action if not silent: the persist is the first effect
\* and the only one of its kind, a row is synced only when reindex was
\* asked and never after the Action, the Action is the last effect, made
\* only when not silent and, when reindex was asked, after every spec of the
\* dataset was synced. The cache is cleared for the save only after the
\* persist, when the Thing's row is in the store.
C11_StepsInOrder ==
    \A p \in Procs : procs[p].op = "save" =>
        LET req == procs[p]
            d == req.did
        IN  /\ Positions(d, "persist") = (IF d = <<>> THEN {} ELSE {1})
            /\ Positions(d, "index") # {} => req.reindex
            /\ \A i \in Positions(d, "index"), j \in Positions(d, "audit") : i < j
            /\ Positions(d, "audit") \subseteq {Len(d)}
            /\ Positions(d, "audit") # {} =>
                  /\ ~req.silent
                  /\ req.reindex =>
                        Cardinality(Positions(d, "index")) =
                            Cardinality(DataSetIndexes(Current, req.self.f.dataset))
            /\ Positions(d, "clear") # {} =>
                  /\ req.self.f.id \in 1..Len(things)
                  /\ \A i \in Positions(d, "clear") : i > 1

\* C11's case: a non-silent reindexing save of a new Place has made all its
\* steps, two specs being defined, and its clear has removed the entry that
\* the other request, a reader, had stored.
C11_Witness ==
    \E p, q \in Procs :
        /\ procs[p].op = "save" /\ procs[p].is_new
        /\ procs[p].did = <<"persist", "clear", "index", "index", "audit">>
        /\ procs[q].op = "get_or_set" /\ procs[q].pc = "done"
        /\ procs[q].held = "fresh"
        /\ cache = {}

\* The Indexed Values of (Thing, spec): exactly one, holding the extraction
\* from the Thing's current blob.
InSync(id, ix) ==
    /\ Cardinality(RowsOf(ivals, id, ix)) = 1
    /\ \A r \in RowsOf(ivals, id, ix) :
          r.value = FieldAt(things[id].f.data, ix.attr_name)

\* The Things a returned call has reindexed against their dataset's specs.
Reindexed ==
    CASE SaveReturned /\ last.reindex -> {last.key.id}
      [] last.op = "reindex" /\ last.raised = "none" ->
            {id \in 1..Len(things) : things[id].f.dataset = last.key.id}
      [] OTHER -> {}

\* C12 as stated: in every reachable state, after any saves with any flags,
\* Index Spec additions and DataSet.reindex calls, every pair of a Thing and
\* an Index Spec of its dataset has exactly one Indexed Value, holding the
\* extraction from the Thing's current blob.
C12_EveryPairInSyncAlways ==
    \A id \in 1..Len(things) : \A ix \in SpecsOfThing(id) : InSync(id, ix)

\* C12 amended: in every reachable state a (Thing, Index Spec) pair has at
\* most one Indexed Value, and right after a save with reindex=True or a
\* DataSet.reindex that returned, every pair of a Thing it reindexed and an
\* Index Spec of the Thing's dataset has exactly one, holding the
\* extraction from the Thing's current blob.
C12_PairsInSyncAfterReindexing ==
    /\ \A id \in 1..Len(things) : \A ix \in AllIndexSpecs :
          Cardinality(RowsOf(ivals, id, ix)) <= 1
    /\ \A id \in Reindexed : \A ix \in SpecsOfThing(id) : InSync(id, ix)

\* C12's case: a DataSet.reindex has returned and has written the rows of a
\* Place whose blob was changed without reindexing or whose specs were added
\* after it was saved.
C12_Witness ==
    /\ last.op = "reindex" /\ last.raised = "none" /\ last.writes = 2
    /\ Reindexed # {}
    /\ \A id \in Reindexed : things[id].f.data = BlobNameA

\* C13: SubmittedThing.save returns the persisted entity, with its identity
\* assigned if the entity was new: a save that returns hands back an
\* instance, and the Thing it saved is in the store under an identity.
C13_SaveReturnsPersistedEntity ==
    SaveReturned =>
        /\ last.value = "instance"
        /\ last.key.id \in 1..Len(things)
        /\ things[last.key.id].f.id = last.key.id

\* The action log `before` is the beginning of the action log `after`.
IsPrefix(before, after) ==
    /\ Len(before) <= Len(after)
    /\ \A i \in 1..Len(before) : after[i] = before[i]

DefaultPatterns == {"(?:www.)?openplans.org", "openplans.github.io"}

\* C15: creating a Dataset seeds exactly two default allowed origins, one
\* for openplans.org and one for openplans.github.io, each with update and
\* destroy disabled, and saving an existing Dataset seeds none: whatever the
\* saves, every Dataset has exactly one origin of each of the two patterns,
\* no other origin, and no permission of them allows update or destroy.
C15_TwoSeededOriginsPerDataSet ==
    \A ds \in 1..Len(dataset_rows) :
        /\ \A pattern \in DefaultPatterns :
              Cardinality(OriginsOf(origins, ds, pattern)) = 1
        /\ \A o \in origins : o.dataset = ds =>
              /\ o.pattern \in DefaultPatterns
              /\ \A perm \in o.permissions : ~perm.can_update /\ ~perm.can_destroy

\* C15's case: a Dataset that was created after the start has been saved
\* again under another display name.
C15_Witness ==
    /\ Len(dataset_rows) = MaxDataSets
    /\ last.op = "save_dataset" /\ ~last.is_new /\ last.key.id = Len(dataset_rows)
    /\ dataset_rows[Len(dataset_rows)].display_name = "trees"
    /\ \E o \in origins : o.dataset = Len(dataset_rows)

\* A save call made while the cache backend did not answer.
SavedInOutage == last.op = "save" /\ ~cache_up

Persisted(call, rows) ==
    /\ call.key.id \in 1..Len(rows)
    /\ rows[call.key.id].cls = call.self.cls
    /\ rows[call.key.id].f.data = call.self.f.data
    /\ rows[call.key.id].f.dataset = call.self.f.dataset

\* C17: in a save the store accepts, whatever the other flag is,
\* reindex=False leaves every Indexed Value row unchanged, silent alone
\* decides whether an Action is added (none when silent, one otherwise),
\* and the Thing's record is persisted.
C17_FlagsAloneDecide ==
    [][(last'.op = "save" /\ last'.storeOk) =>
          /\ ~last'.reindex => ivals' = ivals
          /\ IF last'.silent THEN actions' = actions
             ELSE actions' = Append(actions, ActionOf(last'))
          /\ Persisted(last', things')]_vars

\* A save call whose reindex step raised.
ReindexFailed(call) == call.op = "save" /\ call.raised = "reindex"

\* C18: when the reindex step of a non-silent save raises, the write was
\* accepted and the Thing's record is in the store as the call wrote it,
\* the exception reaches the caller, and the Action log is as it was before
\* the call.
C18_ReindexFailureKeepsRecordAndSkipsAction ==
    [][(ReindexFailed(last') /\ ~last'.silent) =>
          /\ last'.storeOk /\ last'.reindex
          /\ Persisted(last', things')
          /\ last'.value = "raised"
          /\ actions' = actions]_vars

\* C18's case: a non-silent save of a Place raised in its reindex step; the
\* Place is stored with the blob of that save and no Action refers to it.
C18_Witness ==
    /\ ReindexFailed(last) /\ ~last.silent
    /\ Persisted(last, things)
    /\ ~loads(things[last.key.id].f.data).ok
    /\ \A i \in 1..Len(actions) : actions[i].thing # last.key.id

\* The Things of a dataset, and the Indexed Values of the Things of the
\* other datasets.
ThingsOf(rows, ds) == {id \in 1..Len(rows) : rows[id].f.dataset = ds}

ValuesOutside(vals, ds) ==
    {r \in vals : r.thing \notin ThingsOf(things, ds) \/ r.index.dataset # ds}

\* C19: a DataSet.reindex adds no Action, changes no Thing record and
\* leaves the Indexed Values of every other dataset as they were; when it
\* returns, every Thing of the dataset has, for every Index Spec of the
\* dataset, one Indexed Value holding the extraction from the Thing's
\* current blob, whether the spec was defined before or after the Thing was
\* saved.
C19_DataSetReindexDerivesAndFrames ==
    [][last'.op = "reindex" =>
          /\ actions' = actions
          /\ things' = things
          /\ indexes' = indexes
          /\ ValuesOutside(ivals', last'.key.id) = ValuesOutside(ivals, last'.key.id)
          /\ last'.raised = "none" =>
                \A id \in ThingsOf(things, last'.key.id) :
                    \A ix \in DataSetIndexes(Current, last'.key.id) :
                        /\ Cardinality(RowsOf(ivals', id, ix)) = 1
                        /\ \A r \in RowsOf(ivals', id, ix) :
                              r.value = FieldAt(things[id].f.data, ix.attr_name)]_vars

\* C19's case: a DataSet.reindex of dataset 1 returned with a Place in each
\* dataset and a spec on each: the Place of dataset 1, saved without
\* reindexing, has its Indexed Value, and the Place of dataset 2 has none.
C19_Witness ==
    /\ last.op = "reindex" /\ last.raised = "none" /\ last.key.id = 1
    /\ last.writes = 1
    /\ indexes = {IndexSpec(1, "name"), IndexSpec(2, "name")}
    /\ ThingsOf(things, 1) # {} /\ ThingsOf(things, 2) # {}
    /\ \A id \in ThingsOf(things, 1) : InSync(id, IndexSpec(1, "name"))
    /\ \A r \in ivals : r.thing \in ThingsOf(things, 1)

\* A clone call on a persisted Submission, with commit or without.
ClonedSubmission(call, commit) ==
    call.op = "clone" /\ call.self.cls = "Submission" /\ call.commit = commit

\* The Action a committed clone records for its copy.
CopyAction(id) == [action |-> "create", thing |-> id, source |-> ""]

\* What every clone of a Submission with commit=True does: the copy is a new
\* Submission row under a fresh identity, the rows of the Things that
\* existed are as they were, and so are their Indexed Values.
CommitPersistsCopy ==
    /\ Len(things') = Len(things) + 1
    /\ last'.ret.f.id = Len(things') /\ last'.ret.f.id # last'.self.f.id
    /\ last'.ret.f.submittedthing_ptr = last'.ret.f.id
    /\ things'[Len(things')] = last'.ret /\ last'.ret.cls = "Submission"
    /\ \A id \in 1..Len(things) : things'[id] = things[id]
    /\ {r \in ivals' : r.thing # Len(things')} = ivals

\* What a committed clone that returns adds: one 'create' Action for the
\* copy, and the copy's Indexed Values.
CommitRecordsCopy ==
    /\ last'.raised = "none"
    /\ actions' = Append(actions, CopyAction(Len(things')))
    /\ \A ix \in DataSetIndexes(Current, last'.ret.f.dataset) :
          /\ Cardinality(RowsOf(ivals', Len(things'), ix)) = 1
          /\ \A r \in RowsOf(ivals', Len(things'), ix) :
                r.value = FieldAt(last'.ret.f.data, ix.attr_name)

\* What a clone with commit=False leaves alone: every row of the store; the
\* copy it returns has no identity.
NothingPersisted ==
    /\ things' = things /\ actions' = actions /\ ivals' = ivals
    /\ last'.raised = "none" /\ last'.ret.f.id = NoId
    /\ last'.ret.f.submittedthing_ptr = NoId

\* C20: every clone with commit=True of a persisted Submission
\* stores the copy under a fresh identity, adds exactly one 'create' Action
\* referencing the copy and none for the source, derives the copy's Indexed
\* Values and leaves the source's record and Indexed Values unchanged; with
\* commit=False nothing is persisted.
C20_CommittedCloneIsSavedAsNew ==
    [][/\ ClonedSubmission(last', TRUE) => (CommitPersistsCopy /\ CommitRecordsCopy)
       /\ ClonedSubmission(last', FALSE) => NothingPersisted]_vars

================================================================================
